---- MODULE Spec2Model ----
(***************************************************************************)
(* Model of the wind-chaser forecast acquisition engine: the               *)
(* WindguruScraper service (URL identification, cache, the two fetch       *)
(* strategies, table parsing) and the forecasts controller that drives it. *)
(*                                                                         *)
(* Strings the code inspects character by character are sequences of       *)
(* one-character strings; a URL is a sequence of tokens ("https://",       *)
(* "www.", "windguru.cz", "/", digits, "x" for any other text).            *)
(* Numbers read from cell text are kept as integers scaled by Scale        *)
(* (hundredths); decoded values are integers of tenths.                    *)
(***************************************************************************)
EXTENDS Integers, Sequences, FiniteSets, TLC

---------------------------------------------------------------------------
(* Bounds of the model *)

NumProcs == 2
MaxCols == 2
MaxTicks == 2
MaxUrlLen == 5
MaxRows == 11
MaxTextLen == 5
MaxDrift == 1
MaxTables == 3

---------------------------------------------------------------------------
(* Small helpers *)

Digits == {"0", "1", "2", "3", "4", "5", "6", "7", "8", "9"}

DigitVal(c) ==
    CASE c = "0" -> 0 [] c = "1" -> 1 [] c = "2" -> 2 [] c = "3" -> 3
      [] c = "4" -> 4 [] c = "5" -> 5 [] c = "6" -> 6 [] c = "7" -> 7
      [] c = "8" -> 8 [] c = "9" -> 9

SetMin(S) == CHOOSE x \in S : \A y \in S : x <= y

SetMax(S) == CHOOSE x \in S : \A y \in S : x >= y

\* \d+ at index i of s: the longest run of digits starting there (greedy)
RECURSIVE DigitRun(_, _)
DigitRun(s, i) ==
    IF i <= Len(s) /\ s[i] \in Digits
    THEN <<s[i]>> \o DigitRun(s, i + 1)
    ELSE <<>>

---------------------------------------------------------------------------
(* UrlIdentifier *)

\* the regular expression /windguru\.cz\/(\d+)/ matches at token i
UrlRegexMatchesAt(url, i) ==
    /\ i + 2 <= Len(url)
    /\ url[i] = "windguru.cz"
    /\ url[i + 1] = "/"
    /\ url[i + 2] \in Digits

\* extractSpotId: String.match is unanchored and returns the leftmost match;
\* ok = FALSE stands for throw new Error('Invalid Windguru URL format')
extractSpotId(url) ==
    LET hits == {i \in 1..Len(url) : UrlRegexMatchesAt(url, i)}
    IN  IF hits = {}
        THEN [ok |-> FALSE, id |-> <<>>]
        ELSE [ok |-> TRUE, id |-> DigitRun(url, SetMin(hits) + 2)]

\* the windguruUrl validator of the Spot schema:
\* /^https?:\/\/(www\.)?windguru\.cz\/\d+\/?$/
windguruRegexTest(url) ==
    /\ Len(url) >= 4
    /\ url[1] \in {"http://", "https://"}
    /\ LET at == IF url[2] = "www." THEN 3 ELSE 2
           ds == DigitRun(url, at + 2)
           rest == at + 2 + Len(ds)
       IN  /\ UrlRegexMatchesAt(url, at)
           /\ \/ rest = Len(url) + 1
              \/ rest = Len(url) /\ url[rest] = "/"

---------------------------------------------------------------------------
(* Normalizer *)

Scale == 10 * 10

Whitespace == {" "}

RECURSIVE TrimLeft(_)
TrimLeft(s) ==
    IF s # <<>> /\ Head(s) \in Whitespace THEN TrimLeft(Tail(s)) ELSE s

RECURSIVE TrimRight(_)
TrimRight(s) ==
    IF s # <<>> /\ s[Len(s)] \in Whitespace
    THEN TrimRight(SubSeq(s, 1, Len(s) - 1))
    ELSE s

\* String.prototype.trim
Trim(s) == TrimRight(TrimLeft(s))

\* parseInt of a run of digits
RECURSIVE DigitsValue(_)
DigitsValue(ds) ==
    IF ds = <<>> THEN 0
    ELSE 10 * DigitsValue(SubSeq(ds, 1, Len(ds) - 1)) + DigitVal(ds[Len(ds)])

\* the fraction digits of a number, scaled: w is the weight of the first digit
RECURSIVE FracPart(_, _)
FracPart(fp, w) ==
    IF fp = <<>> \/ w = 0 THEN 0
    ELSE DigitVal(Head(fp)) * w + FracPart(Tail(fp), w \div 10)

\* \d+(?:\.\d+)? at index i (s[i] is a digit): the index after the match and
\* parseFloat of the matched text, scaled by Scale
NumberAt(s, i) ==
    LET ip == DigitRun(s, i)
        j == i + Len(ip)
        hasFrac == j + 1 <= Len(s) /\ s[j] = "." /\ s[j + 1] \in Digits
        fp == IF hasFrac THEN DigitRun(s, j + 1) ELSE <<>>
    IN  [end |-> IF hasFrac THEN j + 1 + Len(fp) ELSE j,
         val |-> DigitsValue(ip) * Scale + FracPart(fp, Scale \div 10)]

\* \s* at index i: the index after the whitespace
RECURSIVE SkipSpaces(_, _)
SkipSpaces(s, i) ==
    IF i <= Len(s) /\ s[i] \in Whitespace THEN SkipSpaces(s, i + 1) ELSE i

Null == [null |-> TRUE]

Num(tenths) == [null |-> FALSE, tenths |-> tenths]

Undefined == [def |-> FALSE, s |-> <<>>]

Text(s) == [def |-> TRUE, s |-> s]

\* Math.round((min + max) / 2 * 10) of two numbers scaled by Scale
RoundedMidpoint(min, max) == (min + max + Scale \div 10) \div (2 * (Scale \div 10))

\* mutant: a minus sign in front of the first number is honoured
parseNumericValueSigned(text) ==
    IF ~text.def \/ text.s = <<>> THEN Null
    ELSE
      LET cleanText == Trim(text.s)
          starts == {i \in 1..Len(cleanText) : cleanText[i] \in Digits}
      IN  IF starts = {} THEN Null
          ELSE
            LET at == SetMin(starts)
                first == NumberAt(cleanText, at)
            IN  IF at > 1 /\ cleanText[at - 1] = "-"
                THEN Num(0 - RoundedMidpoint(first.val, first.val))
                ELSE Num(RoundedMidpoint(first.val, first.val))

\* parseNumericValue; the result counts tenths
parseNumericValue(text) ==
    IF ~text.def \/ text.s = <<>> THEN Null
    ELSE
      LET cleanText == Trim(text.s)
          starts == {i \in 1..Len(cleanText) : cleanText[i] \in Digits}
      IN  IF starts = {} THEN Null
          ELSE
            LET first == NumberAt(cleanText, SetMin(starts))
                dash == SkipSpaces(cleanText, first.end)
                k == SkipSpaces(cleanText, dash + 1)
                hasRange == /\ dash <= Len(cleanText)
                            /\ cleanText[dash] = "-"
                            /\ k <= Len(cleanText)
                            /\ cleanText[k] \in Digits
                min == first.val
                max == IF hasRange THEN NumberAt(cleanText, k).val ELSE min
            IN  Num(RoundedMidpoint(min, max))

\* the value of (x || 0) inside Math.max
OrZero(x) == IF x.null THEN 0 ELSE x.tenths

\* parseCloudCover
parseCloudCover(lowText, midText, highText) ==
    LET low == parseNumericValue(lowText)
        mid == parseNumericValue(midText)
        high == parseNumericValue(highText)
    IN  IF low.null /\ mid.null /\ high.null THEN Null
        ELSE [null |-> FALSE, low |-> low, mid |-> mid, high |-> high,
              total |-> Num(SetMax({OrZero(low), OrZero(mid), OrZero(high)}))]

directions ==
    << <<"N">>, <<"N", "N", "E">>, <<"N", "E">>, <<"E", "N", "E">>,
       <<"E">>, <<"E", "S", "E">>, <<"S", "E">>, <<"S", "S", "E">>,
       <<"S">>, <<"S", "S", "W">>, <<"S", "W">>, <<"W", "S", "W">>,
       <<"W">>, <<"W", "N", "W">>, <<"N", "W">>, <<"N", "N", "W">> >>

Compass(code) == [null |-> FALSE, kind |-> "compass", code |-> code]

\* degreesToCompass: Math.round(degrees / 22.5) % 16 indexes directions
degreesToCompass(degrees) ==
    IF degrees < 0 \/ degrees > 360 THEN Null
    ELSE Compass(directions[(((4 * degrees + 45) \div 90) % 16) + 1])

\* mutant: the degrees found in the markup are converted like those of the text
DegreesAsCompass(n) == degreesToCompass(n)

\* the template string `${n}°`
Degrees(n) == [null |-> FALSE, kind |-> "degrees", n |-> n]

CompassLetters == {"N", "E", "S", "W", "n", "e", "s", "w"}

ToUpper(c) ==
    CASE c = "n" -> "N" [] c = "e" -> "E" [] c = "s" -> "S" [] c = "w" -> "W"
      [] OTHER -> c

\* JavaScript's %: the remainder has the sign of the dividend
JsRem(a, b) == IF a >= 0 THEN a % b ELSE 0 - ((0 - a) % b)

\* Math.round of a number scaled by Scale
JsRound(x) == (2 * x + Scale) \div (2 * Scale)

NoMarkup == [title |-> 0 - 1, rotate |-> 0 - 1]

\* the wind direction of one cell of the direction row: text first, then the
\* title attribute, then the rotation transform (scaled by Scale)
decodeWindDirection(cell) ==
    LET text == Trim(cell.text)
        compassMatch == /\ Len(text) \in 1..3
                        /\ \A i \in 1..Len(text) : text[i] \in CompassLetters
        starts == {i \in 1..Len(text) : text[i] \in Digits}
        fromText ==
            IF text = <<>> THEN Null
            ELSE IF compassMatch
                 THEN Compass([i \in 1..Len(text) |-> ToUpper(text[i])])
            ELSE IF starts # {}
                 THEN degreesToCompass(DigitsValue(DigitRun(text, SetMin(starts))))
            ELSE Null
        fromHtml ==
            IF cell.html.title >= 0 THEN Degrees(cell.html.title)
            ELSE IF cell.html.rotate >= 0
                 THEN Degrees(JsRound(JsRem(cell.html.rotate - 180 * Scale,
                                            360 * Scale)))
            ELSE Null
    IN  IF ~fromText.null THEN fromText ELSE fromHtml

---------------------------------------------------------------------------
(* TableExtractor and ForecastAssembler *)

\* A document is a sequence of tables in document order.  A table records the
\* set of specific selectors (by their index in tableSelectors) it matches and
\* its rows; a row is a sequence of cells [text, html].

NumTableSelectors == Len(<<"table.tabulka", "table[class*=forecast]",
                           ".forecast-table table", "table[id*=forecast]",
                           "table[class*=wind]", "table.fcst_table",
                           ".fcst_table_wrapper table">>)

\* the table that $(selector).first() yields for the first selector that
\* matches anything; 0 when no selector matches
TableBySelector(doc) ==
    LET matching == {s \in 1..NumTableSelectors :
                        \E t \in 1..Len(doc) : s \in doc[t].sels}
    IN  IF matching = {} THEN 0
        ELSE SetMin({t \in 1..Len(doc) : SetMin(matching) \in doc[t].sels})

MinRowsExclusive == 5

\* the table with the most rows (the first of them), if it has more than
\* MinRowsExclusive rows; 0 otherwise
TableByRowCount(doc) ==
    LET most == SetMax({Len(doc[t].rows) : t \in 1..Len(doc)})
    IN  IF doc = <<>> \/ most = 0 \/ ~(most > MinRowsExclusive) THEN 0
        ELSE SetMin({t \in 1..Len(doc) : Len(doc[t].rows) = most})

\* forecastTable: 0 stands for no table
FindForecastTable(doc) ==
    IF TableBySelector(doc) # 0 THEN TableBySelector(doc)
    ELSE TableByRowCount(doc)

\* rowMapping: the row index of every key
rowMapping ==
    [headers |-> 0, windSpeed |-> 1, windGusts |-> 2, windDirection |-> 3,
     temperature |-> 4, cloudLow |-> 5, cloudMid |-> 6, cloudHigh |-> 7,
     precipitation |-> 8]

\* mutant: the first cell of a row is kept
RowCellsKeepFirst(row) == row

\* the cells of a row with cellIndex > 0
RowCells(row) == [j \in 1..(Len(row) - 1) |-> row[j + 1]]

\* rows[key] || []: the cells of the row mapped to key, where the table has it
ExtractRows(tableRows) ==
    [key \in DOMAIN rowMapping |->
        IF rowMapping[key] < Len(tableRows)
        THEN RowCells(tableRows[rowMapping[key] + 1])
        ELSE <<>>]

\* rows.key?.[i]?.text for the 0-based column i
CellText(rows, key, i) ==
    IF i + 1 <= Len(rows[key]) THEN Text(rows[key][i + 1].text) ELSE Undefined

\* the columns counted by Math.max(...)
maxColumns(rows) ==
    SetMax({Len(rows.headers), Len(rows.windSpeed), Len(rows.windGusts),
            Len(rows.windDirection), Len(rows.temperature),
            Len(rows.precipitation)})

\* header.text || `col_${i}`
Datetime(rows, i) ==
    IF i + 1 <= Len(rows.headers) /\ rows.headers[i + 1].text # <<>>
    THEN [text |-> rows.headers[i + 1].text, col |-> 0 - 1]
    ELSE [text |-> <<>>, col |-> i]

\* forecastPoint of the 0-based column i, with the clock reading at
forecastPoint(rows, i, at) ==
    [datetime |-> Datetime(rows, i),
     windSpeed |-> parseNumericValue(CellText(rows, "windSpeed", i)),
     windGusts |-> parseNumericValue(CellText(rows, "windGusts", i)),
     windDirection |-> IF i + 1 <= Len(rows.windDirection)
                       THEN decodeWindDirection(rows.windDirection[i + 1])
                       ELSE Null,
     temperature |-> parseNumericValue(CellText(rows, "temperature", i)),
     cloudCover |-> parseCloudCover(CellText(rows, "cloudLow", i),
                                    CellText(rows, "cloudMid", i),
                                    CellText(rows, "cloudHigh", i)),
     precipitation |-> parseNumericValue(CellText(rows, "precipitation", i)),
     timestamp |-> at]

ErrInvalidUrl == <<"Invalid Windguru URL", " format">>

ErrNoTable ==
    <<"No forecast table found on page. The page might require JavaScript or have anti-bot protection.">>

ErrNoData == <<"No forecast data could be extracted from the table">>

Thrown(message) == [ok |-> FALSE, message |-> message]

Returned(value) == [ok |-> TRUE, value |-> value]

\* parseWindguruData.  tm[i + 1] is the clock read for the point of column i
\* and tm[n + 1] the clock read for scrapedAt, n being the number of points.
parseWindguruData(doc, url, tm) ==
    IF ~extractSpotId(url).ok THEN Thrown(ErrInvalidUrl)
    ELSE IF FindForecastTable(doc) = 0 THEN Thrown(ErrNoTable)
    ELSE
      LET rows == ExtractRows(doc[FindForecastTable(doc)].rows)
          n == maxColumns(rows)
          forecasts == [c \in 1..n |-> forecastPoint(rows, c - 1, tm[c])]
      IN  IF n = 0 THEN Thrown(ErrNoData)
          ELSE Returned([spotId |-> extractSpotId(url).id,
                         url |-> url,
                         forecasts |-> forecasts,
                         scrapedAt |-> tm[n + 1],
                         source |-> "windguru"])

---------------------------------------------------------------------------
(* The scraper and its callers as a state machine *)

Procs == 1..NumProcs

\* this.cacheTimeout, in milliseconds
cacheTimeout == 5 * 60 * 1000

\* the clock advances in steps of half the cache timeout
TickStep == cacheTimeout \div 2

UrlA == <<"https://", "www.", "windguru.cz", "/", "1">>

UrlB == <<"http://", "windguru.cz", "/", "2", "/">>

UrlBad == <<"https://", "www.", "x", "/", "1">>

\* a URL of another host whose path holds "windguru.cz/1"
UrlSpoof == <<"https://", "x", "windguru.cz", "/", "1">>

Urls == {UrlA, UrlB, UrlBad}

SpotIds == {extractSpotId(u).id : u \in {v \in Urls : extractSpotId(v).ok}}

Cell(text) == [text |-> text, html |-> NoMarkup]

\* a page whose forecast table has ten rows of a label and one data cell
PageForecast ==
    << [sels |-> {1},
        rows |-> << <<Cell(<<"h">>), Cell(<<"M", "o">>)>>,
                    <<Cell(<<"w">>), Cell(<<"1", "2">>)>>,
                    <<Cell(<<"g">>), Cell(<<"1", "0", "-", "1", "4">>)>>,
                    <<Cell(<<"d">>), Cell(<<"N", "E">>)>>,
                    <<Cell(<<"t">>), Cell(<<"7", ".", "5">>)>>,
                    <<Cell(<<"l">>), Cell(<<"4", "0">>)>>,
                    <<Cell(<<"m">>), Cell(<<>>)>>,
                    <<Cell(<<"h">>), Cell(<<"0">>)>>,
                    <<Cell(<<"p">>), Cell(<<"-">>)>>,
                    <<Cell(<<"r">>), Cell(<<"3">>)>> >>] >>

\* a page without any table (it needs rendering, or blocks the client)
PageNoTable == <<>>

\* a page whose forecast table has rows of a label only
PageEmptyTable ==
    << [sels |-> {1}, rows |-> << <<Cell(<<"h">>)>>, <<Cell(<<"w">>)>> >>] >>

Pages == {PageForecast, PageNoTable, PageEmptyTable}

\* the clock reads of one synchronous parse, all at the same instant
SameInstant(now) == [i \in 1..(MaxCols + 2) |-> now]

ErrTimeout == <<"timeout", " of 10000ms exceeded">>

ErrLaunch == <<"Failed to launch the browser process">>

ErrPage == <<"Protocol error: Target closed">>

ErrNavigation == <<"Navigation ", "timeout", " of 30000 ms exceeded">>

ErrContent == <<"Execution context was destroyed">>

NotCalled == [ok |-> FALSE, message |-> <<>>]

NoEntry == [present |-> FALSE]

NoResponse == [message |-> "none"]

Pending == [status |-> "pending"]

Entry(data, timestamp) == [present |-> TRUE, data |-> data, timestamp |-> timestamp]

\* throw new Error(`Failed to scrape wind data: ${error.message}`)
ScrapeError(message) == Thrown(<<"Failed to scrape wind data: ">> \o message)

\* mutant: the error of the lightweight strategy is the one rethrown
scrapeSpotErrorFirst(axErr, pupErr) == ScrapeError(axErr.message)

\* what scrapeSpot throws when both strategies have failed: the error of
\* scrapeWithAxios was caught and logged, that of scrapeWithPuppeteer reaches
\* the outer catch block
scrapeSpotError(axErr, pupErr) == ScrapeError(pupErr.message)

VARIABLES
    clock,          \* Date.now()
    cache,          \* this.cache: spot id -> entry
    pc,             \* where each caller's scrapeSpot call stands
    url,            \* the argument of the call
    axOut,          \* what scrapeWithAxios returned or threw in this call
    pupOut,         \* what scrapeWithPuppeteer returns or throws in this call
    browser,        \* browser sessions launched by the caller and not closed
    result,         \* what scrapeSpot returned or threw
    axiosCalls,     \* scrapeWithAxios calls of this call
    puppeteerCalls, \* scrapeWithPuppeteer calls of this call
    writes,         \* setCachedData calls of this call
    hit,            \* the call was answered from the cache
    storedAt,       \* clock when the call wrote the cache (-1: it did not, or
                    \* the cache has been cleared for its spot since)
    dashSpots,      \* the spots of the dashboard request being served
    dashState,      \* "idle", "running" or "responded"
    outcomes,       \* what the task of each spot of the request returned
    scraped,        \* what scrapeSpot returned or threw in each task
    response,       \* the body of the last dashboard response
    given,          \* the input of the pure function under check
    computed        \* what the function returned or threw for it

vars == <<clock, cache, pc, url, axOut, pupOut, browser, result, axiosCalls,
          puppeteerCalls, writes, hit, storedAt, dashSpots, dashState,
          outcomes, scraped, response, given, computed>>

dashVars == <<dashSpots, dashState, outcomes, scraped, response>>

pureVars == <<given, computed>>

scraperVars == <<clock, cache, pc, url, axOut, pupOut, browser, result,
                 axiosCalls, puppeteerCalls, writes, hit, storedAt>>

callVars == <<pc, url, axOut, pupOut, result, axiosCalls, puppeteerCalls,
              writes, hit, storedAt>>

InitScraper ==
    /\ clock = 0
    /\ cache = [k \in SpotIds |-> NoEntry]
    /\ pc = [p \in Procs |-> "idle"]
    /\ url = [p \in Procs |-> UrlA]
    /\ axOut = [p \in Procs |-> NotCalled]
    /\ pupOut = [p \in Procs |-> NotCalled]
    /\ browser = [p \in Procs |-> 0]
    /\ result = [p \in Procs |-> NotCalled]
    /\ axiosCalls = [p \in Procs |-> 0]
    /\ puppeteerCalls = [p \in Procs |-> 0]
    /\ writes = [p \in Procs |-> 0]
    /\ hit = [p \in Procs |-> FALSE]
    /\ storedAt = [p \in Procs |-> 0 - 1]
    /\ dashSpots = <<>>
    /\ dashState = "idle"
    /\ outcomes = <<>>
    /\ scraped = <<>>
    /\ response = NoResponse

Init ==
    /\ InitScraper
    /\ given = <<>>
    /\ computed = NotCalled

\* mutant: an entry is still served when its age equals the timeout
getCachedDataInclusive(c, spotId, now) ==
    IF c[spotId].present /\ (now - c[spotId].timestamp) <= cacheTimeout
    THEN Returned(c[spotId].data)
    ELSE NotCalled

\* getCachedData: ok = FALSE stands for null
getCachedData(c, spotId, now) ==
    IF c[spotId].present /\ (now - c[spotId].timestamp) < cacheTimeout
    THEN Returned(c[spotId].data)
    ELSE NotCalled

\* setCachedData
setCachedData(c, spotId, data, now) ==
    [c EXCEPT ![spotId] = Entry(data, now)]

\* mutant: nothing is deleted
clearCacheOfNothing(c, spotId) == c

\* mutant: the whole map is cleared whatever the argument
clearCacheOfEvery(c, spotId) == [k \in DOMAIN c |-> NoEntry]

\* clearCache(spotId)
clearCacheOf(c, spotId) == [c EXCEPT ![spotId] = NoEntry]

\* clearCache()
clearCacheAll(c) == [k \in DOMAIN c |-> NoEntry]

\* the argument of clearCache when none is passed
NoSpotId == <<>>

\* clearCache(spotId = null): if (spotId) delete the entry, else clear the map
clearCache(c, spotId) ==
    IF spotId # NoSpotId THEN clearCacheOf(c, spotId) ELSE clearCacheAll(c)

\* mutant: the lightweight fetch is issued before the URL is validated
ScrapePrefixFetchFirst(u, c, now) ==
    LET spot == extractSpotId(u)
    IN  IF ~spot.ok
        THEN [pc |-> "failed", result |-> ScrapeError(ErrInvalidUrl),
              hit |-> FALSE, axiosCalls |-> 1]
        ELSE IF getCachedData(c, spot.id, now).ok
        THEN [pc |-> "done", result |-> getCachedData(c, spot.id, now),
              hit |-> TRUE, axiosCalls |-> 0]
        ELSE [pc |-> "axios", result |-> NotCalled,
              hit |-> FALSE, axiosCalls |-> 1]

\* scrapeSpot from its call to its first await: the URL is identified, the
\* cache is looked up, and on a miss the lightweight fetch is issued
ScrapePrefix(u, c, now) ==
    LET spot == extractSpotId(u)
    IN  IF ~spot.ok
        THEN [pc |-> "failed", result |-> ScrapeError(ErrInvalidUrl),
              hit |-> FALSE, axiosCalls |-> 0]
        ELSE IF getCachedData(c, spot.id, now).ok
        THEN [pc |-> "done", result |-> getCachedData(c, spot.id, now),
              hit |-> TRUE, axiosCalls |-> 0]
        ELSE [pc |-> "axios", result |-> NotCalled,
              hit |-> FALSE, axiosCalls |-> 1]

\* the cache holds a valid entry for the spot
ValidEntry(k) == cache[k].present /\ clock - cache[k].timestamp < cacheTimeout

\* a caller invokes scrapeSpot(u)
ScrapeSpot(p, u) ==
    /\ pc[p] = "idle"
    /\ LET go == ScrapePrefix(u, cache, clock)
       IN  /\ pc' = [pc EXCEPT ![p] = go.pc]
           /\ result' = [result EXCEPT ![p] = go.result]
           /\ hit' = [hit EXCEPT ![p] = go.hit]
           /\ axiosCalls' = [axiosCalls EXCEPT ![p] = go.axiosCalls]
    /\ url' = [url EXCEPT ![p] = u]
    /\ UNCHANGED <<dashVars, pureVars>>
    /\ UNCHANGED <<clock, cache, axOut, pupOut, browser, puppeteerCalls,
                   writes, storedAt>>

\* mutant: the rendering strategy is tried whatever the lightweight one gave
AfterAxiosAlwaysRender(out) == "launch"

\* where scrapeSpot continues once scrapeWithAxios has settled: with a result
\* it goes on to cache and return it; the catch block calls
\* scrapeWithPuppeteer, which awaits puppeteer.launch
AfterAxios(out) == IF out.ok THEN "done" ELSE "launch"

\* scrapeWithAxios settles: axios.get rejects (timedOut), or resolves with a
\* page that is parsed at once; scrapeSpot resumes in the same turn of the
\* event loop and, given forecastData, writes the cache and returns
AxiosSettle(p, timedOut, page) ==
    /\ pc[p] = "axios"
    /\ \E out \in {IF timedOut THEN Thrown(ErrTimeout)
                   ELSE parseWindguruData(page, url[p], SameInstant(clock))} :
         LET stored == AfterAxios(out) = "done"
         IN
           /\ axOut' = [axOut EXCEPT ![p] = out]
           /\ pc' = [pc EXCEPT ![p] = AfterAxios(out)]
           /\ puppeteerCalls' = [puppeteerCalls EXCEPT
                                    ![p] = IF stored THEN @ ELSE @ + 1]
           /\ cache' = IF stored
                       THEN setCachedData(cache, extractSpotId(url[p]).id,
                                          out.value, clock)
                       ELSE cache
           /\ result' = [result EXCEPT ![p] = IF stored THEN out ELSE @]
           /\ writes' = [writes EXCEPT ![p] = IF stored THEN @ + 1 ELSE @]
           /\ storedAt' = [storedAt EXCEPT ![p] = IF stored THEN clock ELSE @]
    /\ UNCHANGED <<dashVars, pureVars>>
    /\ UNCHANGED <<clock, url, pupOut, browser, axiosCalls, hit>>

\* puppeteer.launch settles; it is outside the try block
LaunchSettle(p, launched) ==
    /\ pc[p] = "launch"
    /\ IF launched
       THEN /\ browser' = [browser EXCEPT ![p] = @ + 1]
            /\ pc' = [pc EXCEPT ![p] = "page"]
            /\ UNCHANGED <<pupOut, result>>
       ELSE /\ pupOut' = [pupOut EXCEPT ![p] = Thrown(ErrLaunch)]
            /\ result' = [result EXCEPT
                             ![p] = scrapeSpotError(axOut[p], Thrown(ErrLaunch))]
            /\ pc' = [pc EXCEPT ![p] = "failed"]
            /\ UNCHANGED browser
    /\ UNCHANGED <<dashVars, pureVars>>
    /\ UNCHANGED <<clock, cache, url, axOut, axiosCalls, puppeteerCalls,
                   writes, hit, storedAt>>

\* a step of the try block that can throw settles: stage "page" is
\* browser.newPage, setUserAgent and setViewport, stage "goto" is page.goto
PuppeteerStep(p, stage, next, ok, message) ==
    /\ pc[p] = stage
    /\ IF ok
       THEN /\ pc' = [pc EXCEPT ![p] = next]
            /\ UNCHANGED pupOut
       ELSE /\ pc' = [pc EXCEPT ![p] = "close"]
            /\ pupOut' = [pupOut EXCEPT ![p] = Thrown(message)]
    /\ UNCHANGED <<dashVars, pureVars>>
    /\ UNCHANGED <<clock, cache, url, axOut, browser, result, axiosCalls,
                   puppeteerCalls, writes, hit, storedAt>>

PageSettle(p, ok) == PuppeteerStep(p, "page", "goto", ok, ErrPage)

GotoSettle(p, ok) == PuppeteerStep(p, "goto", "consent", ok, ErrNavigation)

\* the consent loop and the settle wait: every error in it is swallowed
ConsentDone(p) == PuppeteerStep(p, "consent", "wait", TRUE, <<>>)

\* the loop over tableSelectors: every waitForSelector timeout is swallowed
WaitTableDone(p) == PuppeteerStep(p, "wait", "content", TRUE, <<>>)

\* page.content() settles and the markup is parsed at once
ContentSettle(p, ok, page) ==
    /\ pc[p] = "content"
    /\ pupOut' = [pupOut EXCEPT
                     ![p] = IF ok
                            THEN parseWindguruData(page, url[p], SameInstant(clock))
                            ELSE Thrown(ErrContent)]
    /\ pc' = [pc EXCEPT ![p] = "close"]
    /\ UNCHANGED <<dashVars, pureVars>>
    /\ UNCHANGED <<clock, cache, url, axOut, browser, result, axiosCalls,
                   puppeteerCalls, writes, hit, storedAt>>

\* mutant: the browser is closed on the success path only
SessionsAfterExitNoFinally(n, ok) == IF ok THEN n - 1 ELSE n

\* the caller's open sessions once the try block is left: finally closes the
\* browser whether the block returned (ok) or threw
SessionsAfterExit(n, ok) == n - 1

\* finally: browser.close() settles, then scrapeWithPuppeteer returns or
\* throws and scrapeSpot resumes in the same turn of the event loop: given
\* forecastData it writes the cache and returns, otherwise it throws
CloseSettle(p) ==
    /\ pc[p] = "close"
    /\ browser' = [browser EXCEPT ![p] = SessionsAfterExit(@, pupOut[p].ok)]
    /\ IF pupOut[p].ok
       THEN /\ pc' = [pc EXCEPT ![p] = "done"]
            /\ cache' = setCachedData(cache, extractSpotId(url[p]).id,
                                      pupOut[p].value, clock)
            /\ result' = [result EXCEPT ![p] = pupOut[p]]
            /\ writes' = [writes EXCEPT ![p] = @ + 1]
            /\ storedAt' = [storedAt EXCEPT ![p] = clock]
       ELSE /\ pc' = [pc EXCEPT ![p] = "failed"]
            /\ result' = [result EXCEPT
                             ![p] = scrapeSpotError(axOut[p], pupOut[p])]
            /\ UNCHANGED <<cache, writes, storedAt>>
    /\ UNCHANGED <<dashVars, pureVars>>
    /\ UNCHANGED <<clock, url, axOut, pupOut, axiosCalls, puppeteerCalls, hit>>

\* the record of a finished call is dropped: its caller may call again
Forget(p) ==
    /\ pc' = [pc EXCEPT ![p] = "idle"]
    /\ url' = [url EXCEPT ![p] = UrlA]
    /\ axOut' = [axOut EXCEPT ![p] = NotCalled]
    /\ pupOut' = [pupOut EXCEPT ![p] = NotCalled]
    /\ result' = [result EXCEPT ![p] = NotCalled]
    /\ axiosCalls' = [axiosCalls EXCEPT ![p] = 0]
    /\ puppeteerCalls' = [puppeteerCalls EXCEPT ![p] = 0]
    /\ writes' = [writes EXCEPT ![p] = 0]
    /\ hit' = [hit EXCEPT ![p] = FALSE]
    /\ storedAt' = [storedAt EXCEPT ![p] = 0 - 1]

\* the caller is the task of a spot of the dashboard request being served
IsTask(p) == dashState = "running" /\ p <= Len(dashSpots)

\* a direct caller (getLiveForecast, testForecastUrl) has answered its request
Return(p) ==
    /\ pc[p] \in {"done", "failed"}
    /\ ~IsTask(p)
    /\ Forget(p)
    /\ UNCHANGED <<dashVars, pureVars>>
    /\ UNCHANGED <<clock, cache, browser>>

\* clearForecastCache with a spot: scraper.clearCache(spotId)
ClearCacheSpot(k) ==
    /\ cache[k].present
    /\ cache' = clearCacheOf(cache, k)
    /\ storedAt' = [p \in Procs |->
                      IF extractSpotId(url[p]).ok /\ extractSpotId(url[p]).id = k
                      THEN 0 - 1 ELSE storedAt[p]]
    /\ UNCHANGED <<dashVars, pureVars>>
    /\ UNCHANGED <<clock, pc, url, axOut, pupOut, browser, result, axiosCalls,
                   puppeteerCalls, writes, hit>>

\* clearForecastCache without a spot: scraper.clearCache()
ClearCacheAll ==
    /\ \E k \in SpotIds : cache[k].present
    /\ cache' = clearCacheAll(cache)
    /\ storedAt' = [p \in Procs |-> 0 - 1]
    /\ UNCHANGED <<dashVars, pureVars>>
    /\ UNCHANGED <<clock, pc, url, axOut, pupOut, browser, result, axiosCalls,
                   puppeteerCalls, writes, hit>>

\* time passes
Tick ==
    /\ clock < MaxTicks * TickStep
    /\ clock' = clock + TickStep
    /\ UNCHANGED <<cache, browser>>
    /\ UNCHANGED <<dashVars, pureVars>>
    /\ UNCHANGED callVars

---------------------------------------------------------------------------
(* getDashboardForecasts *)

\* the URLs a stored spot can have: the schema validator accepts them
SpotUrls == {u \in Urls : windguruRegexTest(u)}

\* the requests: the active spots of the user, at most one per caller
RECURSIVE SeqsUpTo(_, _)
SeqsUpTo(S, n) ==
    IF n = 0 THEN {<<>>}
    ELSE SeqsUpTo(S, n - 1)
           \cup {Append(q, x) : q \in {r \in SeqsUpTo(S, n - 1) : Len(r) = n - 1},
                                x \in S}

ErrDb == <<"Mongo", "Network", "Error: connection closed">>

\* mutant: the catch block lets the error escape, so that Promise.allSettled
\* records a rejection and the controller maps it to the Error itself
TaskOutcomeRethrow(u, res, dbOk) ==
    IF res.ok /\ dbOk
    THEN [windguruUrl |-> u, forecast |-> res.value, status |-> "success"]
    ELSE [message |-> IF res.ok THEN ErrDb ELSE res.message]

\* what the task of one spot returns: res is what scrapeSpot returned or
\* threw, dbOk whether Spot.findByIdAndUpdate succeeded after it
TaskOutcome(u, res, dbOk) ==
    IF res.ok /\ dbOk
    THEN [windguruUrl |-> u, forecast |-> res.value, status |-> "success"]
    ELSE [windguruUrl |-> u, forecast |-> Null, status |-> "error",
          error |-> IF res.ok THEN ErrDb ELSE res.message]

\* results.filter(r => r.status === wanted).length
CountStatus(results, wanted) ==
    Cardinality({i \in 1..Len(results) :
                    "status" \in DOMAIN results[i] /\ results[i].status = wanted})

\* the body of the response for the outcomes of the tasks
DashboardBody(results) ==
    IF Len(results) = 0
    THEN [message |-> "Dashboard data retrieved successfully",
          spots |-> <<>>,
          count |-> 0]
    ELSE [message |-> "Dashboard data retrieved successfully",
          spots |-> results,
          count |-> Len(results),
          stats |-> [successful |-> CountStatus(results, "success"),
                     failed |-> CountStatus(results, "error"),
                     total |-> Len(results)]]

\* the request arrives with the user's active spots: without spots the
\* response is sent at once; otherwise spots.map starts every task, each
\* running scrapeSpot up to its first await
DashStart(spots) ==
    /\ dashState # "running"
    /\ \A p \in Procs : pc[p] = "idle"
    /\ dashSpots' = spots
    /\ outcomes' = [i \in 1..Len(spots) |-> Pending]
    /\ scraped' = [i \in 1..Len(spots) |-> NotCalled]
    /\ IF Len(spots) = 0
       THEN /\ dashState' = "responded"
            /\ response' = DashboardBody(<<>>)
            /\ UNCHANGED callVars
       ELSE /\ dashState' = "running"
            /\ response' = NoResponse
            /\ LET go == [p \in 1..Len(spots) |->
                             ScrapePrefix(spots[p], cache, clock)]
                   task == 1..Len(spots)
               IN  /\ pc' = [p \in Procs |-> IF p \in task THEN go[p].pc ELSE pc[p]]
                   /\ result' = [p \in Procs |->
                                    IF p \in task THEN go[p].result ELSE result[p]]
                   /\ hit' = [p \in Procs |-> IF p \in task THEN go[p].hit ELSE hit[p]]
                   /\ axiosCalls' = [p \in Procs |->
                                        IF p \in task THEN go[p].axiosCalls
                                        ELSE axiosCalls[p]]
                   /\ url' = [p \in Procs |-> IF p \in task THEN spots[p] ELSE url[p]]
            /\ UNCHANGED <<axOut, pupOut, puppeteerCalls, writes, storedAt>>
    /\ UNCHANGED <<clock, cache, browser, pureVars>>

\* the task of spot p resumes after scrapeSpot: on success it awaits
\* Spot.findByIdAndUpdate (dbOk) and returns the spot with its forecast; any
\* error is caught and returned with the spot
DashTaskSettle(p, dbOk) ==
    /\ IsTask(p)
    /\ outcomes[p] = Pending
    /\ pc[p] \in {"done", "failed"}
    /\ outcomes' = [outcomes EXCEPT ![p] = TaskOutcome(dashSpots[p], result[p], dbOk)]
    /\ scraped' = [scraped EXCEPT ![p] = result[p]]
    /\ Forget(p)
    /\ UNCHANGED <<clock, cache, browser, dashSpots, dashState, response,
                   pureVars>>

\* Promise.allSettled resolves once every task has settled: results are in
\* the order of the spots, and the response is sent
DashRespond ==
    /\ dashState = "running"
    /\ \A i \in 1..Len(dashSpots) : outcomes[i] # Pending
    /\ response' = DashboardBody(outcomes)
    /\ dashState' = "responded"
    /\ UNCHANGED <<clock, cache, browser, dashSpots, outcomes, scraped,
                   pureVars>>
    /\ UNCHANGED callVars

\* the steps scrapeSpot takes after its first await
ScrapeStep ==
    \/ \E p \in Procs, page \in Pages : AxiosSettle(p, FALSE, page)
    \/ \E p \in Procs : AxiosSettle(p, TRUE, PageNoTable)
    \/ \E p \in Procs, ok \in BOOLEAN : LaunchSettle(p, ok)
    \/ \E p \in Procs, ok \in BOOLEAN : PageSettle(p, ok)
    \/ \E p \in Procs, ok \in BOOLEAN : GotoSettle(p, ok)
    \/ \E p \in Procs : ConsentDone(p)
    \/ \E p \in Procs : WaitTableDone(p)
    \/ \E p \in Procs, page \in Pages : ContentSettle(p, TRUE, page)
    \/ \E p \in Procs : ContentSettle(p, FALSE, PageNoTable)
    \/ \E p \in Procs : CloseSettle(p)

Next ==
    \/ \E p \in Procs, u \in Urls : ScrapeSpot(p, u)
    \/ ScrapeStep
    \/ \E p \in Procs : Return(p)
    \/ \E k \in SpotIds : ClearCacheSpot(k)
    \/ ClearCacheAll
    \/ Tick

Spec == Init /\ [][Next]_vars

NextDash ==
    \/ \E spots \in SeqsUpTo(SpotUrls, NumProcs) : DashStart(spots)
    \/ ScrapeStep
    \/ \E p \in Procs, dbOk \in BOOLEAN : DashTaskSettle(p, dbOk)
    \/ DashRespond
    \/ Tick

\* the scraper serving dashboard requests
SpecDash == Init /\ [][NextDash]_vars

---------------------------------------------------------------------------
(* extractSpotId on its own: every URL of at most MaxUrlLen tokens *)

InitUrl ==
    /\ InitScraper
    /\ given \in SeqsUpTo({"http://", "https://", "www.", "windguru.cz", "/",
                          "1", "2", "x"}, MaxUrlLen)
    /\ computed = NotCalled

\* extractSpotId(given) is called
Identify ==
    /\ computed = NotCalled
    /\ computed' = extractSpotId(given)
    /\ UNCHANGED <<given, scraperVars, dashVars>>

SpecUrl == InitUrl /\ [][Identify]_vars

---------------------------------------------------------------------------
(* Claims about scrapeSpot, checked under Spec *)

RenderingStages == {"page", "goto", "consent", "wait", "content", "close"}

\* a network fetch of the call is in flight
Fetching(p) == pc[p] \in {"axios", "launch"} \cup RenderingStages

Finished(p) == pc[p] \in {"done", "failed"}

SpotOf(p) == extractSpotId(url[p])

RECURSIVE SumOver(_, _)
SumOver(f, S) ==
    IF S = {} THEN 0
    ELSE LET x == CHOOSE y \in S : TRUE IN f[x] + SumOver(f, S \ {x})

\* C1: in every call that misses the cache the lightweight strategy is tried
\* exactly once and first; the rendering strategy is tried if and only if the
\* lightweight one failed, and then exactly once; a rendering failure ends the
\* call with that error, and a rendering success after a lightweight failure
\* (such as "no table found") is what the call returns.
C1_FallbackExactlyOnce ==
    \A p \in Procs :
        /\ axiosCalls[p] \in {0, 1}
        /\ puppeteerCalls[p] \in {0, 1}
        /\ (pc[p] # "idle" /\ SpotOf(p).ok /\ ~hit[p]) => axiosCalls[p] = 1
        /\ puppeteerCalls[p] = 1
             <=> (axiosCalls[p] = 1 /\ axOut[p] # NotCalled /\ ~axOut[p].ok)
        /\ pc[p] \in {"launch"} \cup RenderingStages => puppeteerCalls[p] = 1
        /\ (Finished(p) /\ puppeteerCalls[p] = 1 /\ ~pupOut[p].ok)
             => (pc[p] = "failed" /\ result[p] = ScrapeError(pupOut[p].message))
        /\ (Finished(p) /\ puppeteerCalls[p] = 1 /\ pupOut[p].ok)
             => (pc[p] = "done" /\ result[p] = pupOut[p])
        /\ (Finished(p) /\ axiosCalls[p] = 1 /\ puppeteerCalls[p] = 0)
             => (pc[p] = "done" /\ result[p] = axOut[p])

\* a call whose lightweight fetch found no table returned the rendering result
C1_Witness ==
    \E p \in Procs :
        /\ pc[p] = "done"
        /\ axOut[p] = Thrown(ErrNoTable)
        /\ pupOut[p].ok
        /\ result[p] = pupOut[p]
        /\ axiosCalls[p] = 1
        /\ puppeteerCalls[p] = 1

\* C2, as claimed: once a scrape of a URL has stored its result at time t
\* (and the cache was not cleared since), a scrape of that URL beginning at
\* now < t + 5 min returns that very result without a fetch; one beginning
\* 5 min or more after the store the cache holds fetches; and a result stored
\* 5 min or more after another for the same URL has a later scrapedAt.
C2_CacheWindowAsClaimed ==
    [][\A p, q \in Procs :
          /\ ( /\ pc[p] = "idle" /\ pc'[p] # "idle"
               /\ pc[q] = "done" /\ storedAt[q] >= 0
               /\ url'[p] = url[q]
               /\ clock - storedAt[q] < cacheTimeout )
             => /\ pc'[p] = "done"
                /\ result'[p] = result[q]
                /\ axiosCalls'[p] = 0
                /\ puppeteerCalls'[p] = 0
          /\ ( /\ pc[p] = "idle" /\ pc'[p] # "idle"
               /\ pc[q] = "done" /\ storedAt[q] >= 0
               /\ url'[p] = url[q]
               /\ cache[SpotOf(q).id].timestamp = storedAt[q]
               /\ clock - storedAt[q] >= cacheTimeout )
             => (pc'[p] = "axios" /\ axiosCalls'[p] = 1)
          /\ ( /\ pc[p] = "done" /\ pc[q] = "done"
               /\ storedAt[p] >= 0 /\ storedAt[q] >= 0
               /\ url[p] = url[q]
               /\ storedAt[p] - storedAt[q] >= cacheTimeout )
             => result[p].value.scrapedAt > result[q].value.scrapedAt
      ]_vars

\* C3: a call that ends in failure has written nothing to the cache and the
\* step in which it fails leaves the cache as it was; a call for a spot
\* without a valid entry performs a network fetch.
C3_FailureNeverCached ==
    [][\A p \in Procs :
          /\ (pc'[p] = "failed" /\ pc[p] # "failed")
                => (cache' = cache /\ writes'[p] = 0)
          /\ pc[p] = "failed" => writes[p] = 0
          /\ ( /\ pc[p] = "idle" /\ pc'[p] # "idle"
               /\ extractSpotId(url'[p]).ok
               /\ ~ValidEntry(extractSpotId(url'[p]).id) )
                => (pc'[p] = "axios" /\ axiosCalls'[p] = 1)
      ]_vars

\* both strategies failed while the cache held another call's entry
C3_Witness ==
    \E p \in Procs :
        /\ pc[p] = "failed"
        /\ axiosCalls[p] = 1
        /\ puppeteerCalls[p] = 1
        /\ writes[p] = 0
        /\ cache[SpotOf(p).id].present

\* C4: a browser session is open only while the rendering fetch that launched
\* it is between launch and close: at most one per rendering fetch in flight,
\* none for a call that has returned or thrown, none when no scrape is in
\* flight.
C4_SessionsScoped ==
    /\ \A p \in Procs : browser[p] = IF pc[p] \in RenderingStages THEN 1 ELSE 0
    /\ SumOver(browser, Procs) <= Cardinality({p \in Procs : pc[p] \in RenderingStages})
    /\ (\A p \in Procs : ~Fetching(p)) => SumOver(browser, Procs) = 0

\* a rendering fetch whose navigation failed has thrown with its session closed
C4_Witness ==
    \E p \in Procs :
        /\ pc[p] = "failed"
        /\ pupOut[p] = Thrown(ErrNavigation)
        /\ browser[p] = 0

\* C5, as claimed: two calls for the same spot never have a network fetch in
\* flight at the same time.
C5_NoRedundantFetchAsClaimed ==
    \A p, q \in Procs :
        (p # q /\ Fetching(p) /\ Fetching(q)) => SpotOf(p).id # SpotOf(q).id

\* C7: a call that rejects its URL as malformed has done nothing else: no
\* lightweight fetch, no rendering fetch, no browser launch, no cache hit and
\* no cache write.
C7_MalformedRejectedFirst ==
    \A p \in Procs :
        /\ (pc[p] # "idle" /\ ~SpotOf(p).ok)
             => (pc[p] = "failed" /\ result[p] = ScrapeError(ErrInvalidUrl))
        /\ (pc[p] = "failed" /\ result[p] = ScrapeError(ErrInvalidUrl))
             => /\ axiosCalls[p] = 0
                /\ puppeteerCalls[p] = 0
                /\ axOut[p] = NotCalled
                /\ pupOut[p] = NotCalled
                /\ browser[p] = 0
                /\ ~hit[p]
                /\ writes[p] = 0

\* a malformed URL was rejected while the cache held a valid entry
C7_Witness ==
    \E p \in Procs :
        /\ pc[p] = "failed"
        /\ url[p] = UrlBad
        /\ result[p] = ScrapeError(ErrInvalidUrl)
        /\ \E k \in SpotIds : ValidEntry(k)

\* C9, as claimed: an empty-forecast failure ends the call in which it
\* occurs; no other fetch follows it, also when it comes from parsing the
\* lightweight strategy's document.
C9_EmptyForecastTerminalAsClaimed ==
    \A p \in Procs :
        /\ axOut[p] = Thrown(ErrNoData)
             => (puppeteerCalls[p] = 0 /\ pc[p] = "failed")
        /\ (pupOut[p] = Thrown(ErrNoData) /\ pc[p] # "close")
             => pc[p] = "failed"

---------------------------------------------------------------------------
(* parseWindguruData on its own: tables of up to MaxRows rows and MaxCols   *)
(* data columns, one row of which may be shorter, parsed before and after   *)
(* one cell is replaced                                                     *)

DigitChar(k) ==
    CASE k % 10 = 0 -> "0" [] k % 10 = 1 -> "1" [] k % 10 = 2 -> "2"
      [] k % 10 = 3 -> "3" [] k % 10 = 4 -> "4" [] k % 10 = 5 -> "5"
      [] k % 10 = 6 -> "6" [] k % 10 = 7 -> "7" [] k % 10 = 8 -> "8"
      [] OTHER -> "9"

\* the cell of row r and cell index c (both from 0): its text tells where it
\* is, as digits, or as a compass letter in the direction row
MarkedCell(r, c) ==
    IF r = rowMapping.windDirection
    THEN Cell(<< <<"W", "N", "E", "S">>[(c % 4) + 1] >>)
    ELSE Cell(<<DigitChar(r), DigitChar(c)>>)

\* the rows of the three cloud layers
CloudRows == {rowMapping.cloudLow, rowMapping.cloudMid, rowMapping.cloudHigh}

\* a table of nRows rows: the cloud rows have cloudWidth cells, the other rows
\* width cells, and row shortRow has shortLen cells
MarkedTable(nRows, width, cloudWidth, shortRow, shortLen) ==
    [sels |-> {1},
     rows |-> [r1 \in 1..nRows |->
                 [c1 \in 1..(IF r1 - 1 = shortRow THEN shortLen
                             ELSE IF r1 - 1 \in CloudRows THEN cloudWidth
                             ELSE width) |->
                     MarkedCell(r1 - 1, c1 - 1)]]]

ParseInputs ==
    {<<MarkedTable(nRows, width, cloudWidth, shortRow, shortLen)>> :
        nRows \in 0..MaxRows, width \in 1..(MaxCols + 1),
        cloudWidth \in 1..(MaxCols + 1),
        shortRow \in (0 - 1)..rowMapping.precipitation, shortLen \in 0..MaxCols}

\* the document with cell c of row r of its table replaced by another cell:
\* other text, and a title attribute of 90 degrees
ReplaceCell(doc, r, c) ==
    [doc EXCEPT ![1].rows[r + 1][c + 1] =
        [text |-> <<"7", "7">>, html |-> [title |-> 9 * 10, rotate |-> 0 - 1]]]

InitParse ==
    /\ InitScraper
    /\ given \in {[doc |-> d, edit |-> <<>>] : d \in ParseInputs}
    /\ computed = [first |-> NotCalled, second |-> NotCalled]

\* parseWindguruData is called on the document
ParseFirst ==
    /\ computed.first = NotCalled
    /\ computed' = [computed EXCEPT
                       !.first = parseWindguruData(given.doc, UrlA, SameInstant(0))]
    /\ UNCHANGED <<given, scraperVars, dashVars>>

\* one cell of the table gets other content
EditCell(r, c) ==
    /\ computed.first # NotCalled
    /\ given.edit = <<>>
    /\ r + 1 <= Len(given.doc[1].rows)
    /\ c + 1 <= Len(given.doc[1].rows[r + 1])
    /\ given' = [doc |-> ReplaceCell(given.doc, r, c), edit |-> <<r, c>>]
    /\ UNCHANGED <<computed, scraperVars, dashVars>>

\* parseWindguruData is called on the edited document
ParseSecond ==
    /\ given.edit # <<>>
    /\ computed.second = NotCalled
    /\ computed' = [computed EXCEPT
                       !.second = parseWindguruData(given.doc, UrlA, SameInstant(0))]
    /\ UNCHANGED <<given, scraperVars, dashVars>>

NextParse ==
    \/ ParseFirst
    \/ \E r \in 0..(MaxRows - 1), c \in 0..MaxCols : EditCell(r, c)
    \/ ParseSecond

SpecParse == InitParse /\ [][NextParse]_vars

---------------------------------------------------------------------------
(* The operations that scrape: getLiveForecast, refreshSpotForecast,        *)
(* testForecastUrl, getDashboardForecasts for one spot, and testUrl, served *)
(* one at a time by caller 1                                                *)

\* String.prototype.includes for a message held as a sequence of pieces: the
\* pieces are cut so that every searched text is a piece or in no piece
Includes(message, needle) == \E i \in 1..Len(message) : message[i] = needle

\* what the operation awaits from scrapeSpot and the database: the error that
\* reaches its catch block, if any
CaughtError(res, dbOk) ==
    IF ~res.ok THEN Thrown(res.message)
    ELSE IF ~dbOk THEN Thrown(ErrDb)
    ELSE res

\* getLiveForecast: the response for what scrapeSpot returned or threw
LiveResponse(u, res, dbOk) ==
    LET got == CaughtError(res, dbOk)
    IN  IF got.ok
        THEN [status |-> 200, forecast |-> got.value, url |-> u]
        ELSE IF Includes(got.message, "Invalid Windguru URL")
        THEN [status |-> 400, error |-> "Invalid URL", message |-> got.message]
        ELSE IF Includes(got.message, "timeout") \/ Includes(got.message, "network")
        THEN [status |-> 503, error |-> "Service unavailable",
              message |-> <<"Unable to fetch forecast data. Please try again later.">>]
        ELSE [status |-> 500, error |-> "Forecast error",
              message |-> <<"Failed to retrieve forecast data">>]

\* refreshSpotForecast
RefreshResponse(u, res, dbOk) ==
    LET got == CaughtError(res, dbOk)
    IN  IF got.ok
        THEN [status |-> 200, forecast |-> got.value, url |-> u]
        ELSE [status |-> 500, error |-> "Refresh error",
              message |-> <<"Failed to refresh forecast data">>]

\* testForecastUrl: there is no database update in it
TestResponse(u, res) ==
    IF res.ok
    THEN [status |-> 200, url |-> u, accessible |-> TRUE,
          forecastCount |-> Len(res.value.forecasts),
          scrapedAt |-> res.value.scrapedAt]
    ELSE [status |-> 400, error |-> "URL test failed", message |-> res.message,
          url |-> u, accessible |-> FALSE]

\* mutant: testUrl lets the error of scrapeSpot escape
testUrlRethrow(res) == IF res.ok THEN [returned |-> TRUE] ELSE [thrown |-> res.message]

\* testUrl: true when scrapeSpot returned, false when it threw
testUrl(res) == [returned |-> res.ok]

\* the URLs an operation can be given: those of stored spots have passed the
\* validator of the schema, those of a request body or argument are free
OpUrls(op) ==
    IF op \in {"test", "testUrl"} THEN Urls \cup {UrlSpoof} ELSE SpotUrls

\* what the operation answers once scrapeSpot has settled
OpResponse(op, u, res, dbOk) ==
    CASE op = "live" -> LiveResponse(u, res, dbOk)
      [] op = "refresh" -> RefreshResponse(u, res, dbOk)
      [] op = "test" -> TestResponse(u, res)
      [] op = "dashboard" -> DashboardBody(<<TaskOutcome(u, res, dbOk)>>)
      [] op = "testUrl" -> testUrl(res)

\* the responses sent before any scrape: spot not found, spot inactive,
\* no URL in the body
Rejections ==
    [live |-> {[status |-> 404, error |-> "Spot not found"],
               [status |-> 400, error |-> "Spot inactive"]},
     refresh |-> {[status |-> 404, error |-> "Spot not found"]},
     test |-> {[status |-> 400, error |-> "URL required"]}]

NoOp == [op |-> "none"]

InitOps ==
    /\ InitScraper
    /\ given = NoOp
    /\ computed = NoOp

\* an operation is invoked (the previous answer has been delivered):
\* refreshSpotForecast first clears the entry of the spot; then scrapeSpot runs
\* up to its first await
OpStart(op, u) ==
    /\ given = NoOp
    /\ pc[1] = "idle"
    /\ given' = [op |-> op, url |-> u,
                 cached |-> /\ extractSpotId(u).ok
                            /\ ValidEntry(extractSpotId(u).id)]
    /\ computed' = NoOp
    /\ \E cleared \in {IF op = "refresh" /\ extractSpotId(u).ok
                       THEN clearCacheOf(cache, extractSpotId(u).id)
                       ELSE cache} :
         \E go \in {IF op = "refresh" /\ ~extractSpotId(u).ok
                    THEN [pc |-> "failed", result |-> Thrown(ErrInvalidUrl),
                          hit |-> FALSE, axiosCalls |-> 0]
                    ELSE ScrapePrefix(u, cleared, clock)} :
           /\ cache' = cleared
           /\ pc' = [pc EXCEPT ![1] = go.pc]
           /\ result' = [result EXCEPT ![1] = go.result]
           /\ hit' = [hit EXCEPT ![1] = go.hit]
           /\ axiosCalls' = [axiosCalls EXCEPT ![1] = go.axiosCalls]
           /\ url' = [url EXCEPT ![1] = u]
    /\ UNCHANGED <<clock, axOut, pupOut, browser, puppeteerCalls, writes,
                   storedAt, dashVars>>

\* an operation answers without scraping
OpRejected(op, answer) ==
    /\ given = NoOp
    /\ pc[1] = "idle"
    /\ computed' = [op |-> op, rejected |-> TRUE, response |-> answer]
    /\ UNCHANGED <<given, scraperVars, dashVars>>

\* scrapeSpot has settled: the operation updates the spot where it does so
\* (dbOk) and answers
OpRespond(dbOk) ==
    /\ given # NoOp
    /\ pc[1] \in {"done", "failed"}
    /\ computed' = [op |-> given.op, rejected |-> FALSE, url |-> given.url,
                    cached |-> given.cached,
                    scraped |-> result[1], hit |-> hit[1],
                    axOut |-> axOut[1], pupOut |-> pupOut[1],
                    response |-> OpResponse(given.op, given.url, result[1], dbOk)]
    /\ given' = NoOp
    /\ Forget(1)
    /\ UNCHANGED <<clock, cache, browser, dashVars>>

NextOps ==
    \/ \E op \in {"live", "refresh", "test", "dashboard", "testUrl"} :
          \E u \in OpUrls(op) : OpStart(op, u)
    \/ \E op \in DOMAIN Rejections : \E answer \in Rejections[op] :
          OpRejected(op, answer)
    \/ ScrapeStep
    \/ \E dbOk \in BOOLEAN : OpRespond(dbOk)
    \/ Tick

SpecOps == InitOps /\ [][NextOps]_vars

---------------------------------------------------------------------------
(* The decoders on their own: each is applied to inputs drawn from small sets *)

\* the characters of cell texts: "deg" stands for the degree mark
NumericTexts == UNION {[1..n -> {"1", "5", "-", ".", " "}] : n \in 0..MaxTextLen}

InitNumeric ==
    /\ InitScraper
    /\ given \in {Text(t) : t \in NumericTexts} \cup {Undefined}
    /\ computed = NotCalled

\* parseNumericValue is called on the text
ParseNumeric ==
    /\ computed = NotCalled
    /\ computed' = parseNumericValue(given)
    /\ UNCHANGED <<given, scraperVars, dashVars>>

SpecNumeric == InitNumeric /\ [][ParseNumeric]_vars

\* the texts of cloud cells: absent, empty, a dash, 0, 40, 100 and 120
CloudTexts ==
    {Undefined, Text(<<>>), Text(<<"-">>), Text(<<"0">>), Text(<<"4", "0">>),
     Text(<<"1", "0", "0">>), Text(<<"1", "2", "0">>)}

InitCloud ==
    /\ InitScraper
    /\ given \in [low : CloudTexts, mid : CloudTexts, high : CloudTexts]
    /\ computed = NotCalled

\* parseCloudCover is called on the three texts
ParseCloud ==
    /\ computed = NotCalled
    /\ computed' = parseCloudCover(given.low, given.mid, given.high)
    /\ UNCHANGED <<given, scraperVars, dashVars>>

SpecCloud == InitCloud /\ [][ParseCloud]_vars

DirectionTexts ==
    UNION {[1..n -> {"N", "e", "1", "5", "deg"}] : n \in 0..MaxTextLen}

\* title: the degrees in a title attribute "... (<digits>deg)", -1 without
\* one; rotate: the number in a rotate(...) transform, scaled by Scale, -1
\* without one
InitDirection ==
    /\ InitScraper
    /\ given \in [text : DirectionTexts,
                  html : [title : {0 - 1, 0, 140, 999},
                          rotate : {0 - 1, 0, 90 * Scale, 180 * Scale,
                                    270 * Scale + Scale \div 2, 360 * Scale}]]
    /\ computed = NotCalled

\* the direction of the cell is decoded
DecodeDirection ==
    /\ computed = NotCalled
    /\ computed' = decodeWindDirection(given)
    /\ UNCHANGED <<given, scraperVars, dashVars>>

SpecDirection == InitDirection /\ [][DecodeDirection]_vars

---------------------------------------------------------------------------
(* parseWindguruData while the clock runs: new Date() is read once for each   *)
(* point and once for scrapedAt, and the clock may advance between two reads *)

\* the clock reads of one parse: they never go back, and drift by at most
\* MaxDrift milliseconds in all
ClockReads ==
    {tm \in [1..(MaxCols + 2) -> 0..MaxDrift] :
        \A i \in 1..(MaxCols + 1) : tm[i] <= tm[i + 1]}

InitAssemble ==
    /\ InitScraper
    /\ given \in [doc : ParseInputs, tm : ClockReads]
    /\ computed = NotCalled

\* parseWindguruData is called on the document
Assemble ==
    /\ computed = NotCalled
    /\ computed' = parseWindguruData(given.doc, UrlA, given.tm)
    /\ UNCHANGED <<given, scraperVars, dashVars>>

SpecAssemble == InitAssemble /\ [][Assemble]_vars

---------------------------------------------------------------------------
(* Claims about the dashboard batch (SpecDash) *)

\* what the response says of spot i, given what scrapeSpot gave its task
OutcomeOfOwnScrape(i) ==
    LET o == response.spots[i]
        own == scraped[i]
    IN  /\ "status" \in DOMAIN o
        /\ o.status \in {"success", "error"}
        /\ o.windguruUrl = dashSpots[i]
        /\ o.status = "success" => own.ok /\ o.forecast = own.value
        /\ o.status = "error" =>
              /\ o.forecast = Null
              /\ o.error = (IF own.ok THEN ErrDb ELSE own.message)
        /\ ~own.ok => o.status = "error"

OutcomesInOrder ==
    /\ Len(response.spots) = Len(dashSpots)
    /\ response.count = Len(dashSpots)
    /\ \A i \in 1..Len(dashSpots) : OutcomeOfOwnScrape(i)

StatsAddUp ==
    /\ "stats" \in DOMAIN response
    /\ response.stats.total = Len(dashSpots)
    /\ response.stats.successful + response.stats.failed = response.stats.total
    /\ response.stats.successful =
          Cardinality({i \in 1..Len(dashSpots) : response.spots[i].status = "success"})

\* C6 as stated: a batch over n active spots returns n outcomes in the order
\* of the spots, each tagged success with its forecast or error with that
\* spot's own message, whatever the other spots did, and
\* stats.successful + stats.failed = stats.total = n, for every n.
C6_BatchOutcomesAsClaimed ==
    dashState = "responded" => OutcomesInOrder /\ StatsAddUp

\* C6 amended: the outcomes are as stated for every n; the stats add up to n
\* for n >= 1, and the response for n = 0 has no stats at all.
C6_BatchOutcomes ==
    dashState = "responded" =>
        /\ OutcomesInOrder
        /\ Len(dashSpots) >= 1 => StatsAddUp
        /\ Len(dashSpots) = 0 => "stats" \notin DOMAIN response

\* a batch of two spots has responded, one scraped and one failed in scrapeSpot
C6_Witness ==
    /\ dashState = "responded"
    /\ Len(dashSpots) = 2
    /\ \E i, j \in 1..2 :
          /\ response.spots[i].status = "success"
          /\ response.spots[j].status = "error"
          /\ ~scraped[j].ok

---------------------------------------------------------------------------
(* Claims about extractSpotId (SpecUrl) *)

IsDigit(t) == t \in Digits

\* C8 as stated: extractSpotId returns the digit segment of every URL of the
\* form https?://(www.)?windguru.cz/<digits>/? and throws for every other
\* string.
C8_IdentifyExactAsClaimed ==
    computed # NotCalled =>
        IF windguruRegexTest(given)
        THEN computed = [ok |-> TRUE, id |-> SelectSeq(given, IsDigit)]
        ELSE ~computed.ok

---------------------------------------------------------------------------
(* Claims about parseWindguruData (SpecParse) *)

\* the cells of the table as the page has them, rows and cells counted from 0
HasCell(tbl, r, c) == r + 1 <= Len(tbl) /\ c + 1 <= Len(tbl[r + 1])

TextAt(tbl, r, c) == IF HasCell(tbl, r, c) THEN Text(tbl[r + 1][c + 1].text) ELSE Undefined

\* point i holds what cell i + 1 of rows 0 to 8 holds
PointIsPositional(tbl, pt, i) ==
    /\ pt.datetime = (IF HasCell(tbl, 0, i + 1) /\ tbl[1][i + 2].text # <<>>
                      THEN [text |-> tbl[1][i + 2].text, col |-> 0 - 1]
                      ELSE [text |-> <<>>, col |-> i])
    /\ pt.windSpeed = parseNumericValue(TextAt(tbl, 1, i + 1))
    /\ pt.windGusts = parseNumericValue(TextAt(tbl, 2, i + 1))
    /\ pt.windDirection = (IF HasCell(tbl, 3, i + 1)
                           THEN decodeWindDirection(tbl[4][i + 2])
                           ELSE Null)
    /\ pt.temperature = parseNumericValue(TextAt(tbl, 4, i + 1))
    /\ pt.cloudCover = parseCloudCover(TextAt(tbl, 5, i + 1),
                                       TextAt(tbl, 6, i + 1),
                                       TextAt(tbl, 7, i + 1))
    /\ pt.precipitation = parseNumericValue(TextAt(tbl, 8, i + 1))

OutputIsPositional(tbl, out) ==
    out.ok => \A i \in 0..(Len(out.value.forecasts) - 1) :
                 PointIsPositional(tbl, out.value.forecasts[i + 1], i)

\* C10: point i takes its period from cell i + 1 of row 0, windSpeed from
\* row 1, windGusts from row 2, windDirection from row 3, temperature from
\* row 4, the cloud layers from rows 5, 6 and 7 and precipitation from row 8;
\* replacing cell 0 of any row, or any cell of a row of index 9 or more,
\* leaves the output of parseWindguruData as it was.
C10_PositionalExtraction ==
    /\ (computed.first # NotCalled /\ given.edit = <<>>) =>
          OutputIsPositional(given.doc[1].rows, computed.first)
    /\ computed.second # NotCalled =>
          /\ OutputIsPositional(given.doc[1].rows, computed.second)
          /\ (given.edit[2] = 0 \/ given.edit[1] > rowMapping.precipitation) =>
                computed.second = computed.first

\* a full table of MaxCols points was parsed again after the label cell of
\* its direction row was replaced
C10_Witness ==
    /\ computed.second # NotCalled
    /\ computed.second.ok
    /\ Len(computed.second.value.forecasts) = MaxCols
    /\ Len(given.doc[1].rows) = MaxRows
    /\ given.edit = <<rowMapping.windDirection, 0>>

\* the data cells of row r of the table: its cells after cell 0
DataCells(tbl, r) ==
    IF r + 1 <= Len(tbl) /\ Len(tbl[r + 1]) >= 1 THEN Len(tbl[r + 1]) - 1 ELSE 0

\* the data cells of the widest of rows 0 to 8
WidestRow(tbl) == SetMax({DataCells(tbl, r) : r \in 0..rowMapping.precipitation})

\* C11, as claimed: the number of points equals the largest number of data
\* cells over rows 0 to 8, the cloud rows 5 to 7 included: a table with a data
\* cell in any of these rows is assembled, and no column is dropped.
C11_AllColumnsKeptAsClaimed ==
    (computed.first # NotCalled /\ given.edit = <<>>) =>
        LET tbl == given.doc[1].rows
        IN  /\ WidestRow(tbl) >= 1 => computed.first.ok
            /\ computed.first.ok =>
                  Len(computed.first.value.forecasts) = WidestRow(tbl)

\* the field of point pt that row r feeds is null
FieldIsNull(pt, r) ==
    CASE r = rowMapping.windSpeed -> pt.windSpeed.null
      [] r = rowMapping.windGusts -> pt.windGusts.null
      [] r = rowMapping.windDirection -> pt.windDirection.null
      [] r = rowMapping.temperature -> pt.temperature.null
      [] r = rowMapping.cloudLow -> pt.cloudCover.null \/ pt.cloudCover.low.null
      [] r = rowMapping.cloudMid -> pt.cloudCover.null \/ pt.cloudCover.mid.null
      [] r = rowMapping.cloudHigh -> pt.cloudCover.null \/ pt.cloudCover.high.null
      [] r = rowMapping.precipitation -> pt.precipitation.null

\* C12, as claimed: a row shorter than the widest row, or missing, causes no
\* assembly error and no truncation: there are as many points as the widest
\* row has data cells, the field fed by a row is null in every column at or
\* beyond that row's length, and every point holds what its own column holds.
C12_ShortRowsAsClaimed ==
    (computed.first # NotCalled /\ given.edit = <<>>) =>
        LET tbl == given.doc[1].rows
            out == computed.first
        IN  /\ WidestRow(tbl) >= 1 => out.ok
            /\ out.ok =>
                  /\ Len(out.value.forecasts) = WidestRow(tbl)
                  /\ \A i \in 0..(Len(out.value.forecasts) - 1),
                        r \in rowMapping.windSpeed..rowMapping.precipitation :
                        i >= DataCells(tbl, r) =>
                            FieldIsNull(out.value.forecasts[i + 1], r)
                  /\ OutputIsPositional(tbl, out)

---------------------------------------------------------------------------
(* Claims about parseNumericValue (SpecNumeric) *)

AllDigits(t, from, to) == \A i \in from..to : t[i] \in Digits

\* the places where the text t could be split into an integer part 1..k and
\* nothing more, or a point and a fraction: t is then a number by itself
NumberSplits(t) ==
    {k \in 1..Len(t) :
        /\ AllDigits(t, 1, k)
        /\ \/ k = Len(t)
           \/ k + 2 <= Len(t) /\ t[k + 1] = "." /\ AllDigits(t, k + 2, Len(t))}

IsNumber(t) == NumberSplits(t) # {}

\* the value of a number text, scaled by Scale
ValueOf(t) ==
    LET k == SetMin(NumberSplits(t))
    IN  DigitsValue(SubSeq(t, 1, k)) * Scale
          + (IF k = Len(t) THEN 0
             ELSE FracPart(SubSeq(t, k + 2, Len(t)), Scale \div 10))

\* the text t is a range: a number, a dash between optional spaces, a number
RangeSplits(t) ==
    {<<i, j>> \in (1..Len(t)) \X (1..Len(t)) :
        /\ i < j
        /\ IsNumber(SubSeq(t, 1, i))
        /\ IsNumber(SubSeq(t, j, Len(t)))
        /\ \E d \in (i + 1)..(j - 1) :
              /\ t[d] = "-"
              /\ \A b \in ((i + 1)..(j - 1)) \ {d} : t[b] \in Whitespace}

\* C13, as claimed: a text holding a single number v decodes to v, a text
\* holding a range a-b decodes to (a + b) / 2 rounded to one decimal, and an
\* undefined or empty text or one without a number decodes to null.
C13_NumericRuleAsClaimed ==
    computed # NotCalled =>
        LET t == IF given.def THEN Trim(given.s) ELSE <<>>
        IN  /\ (\A i \in 1..Len(t) : t[i] \notin Digits) => computed = Null
            /\ IsNumber(t) =>
                  (~computed.null /\ computed.tenths * (Scale \div 10) = ValueOf(t))
            /\ (Len(t) >= 2 /\ t[1] = "-" /\ IsNumber(Tail(t))) =>
                  (~computed.null
                   /\ computed.tenths * (Scale \div 10) = 0 - ValueOf(Tail(t)))
            /\ \A ij \in RangeSplits(t) :
                  LET a == ValueOf(SubSeq(t, 1, ij[1]))
                      b == ValueOf(SubSeq(t, ij[2], Len(t)))
                  IN  /\ ~computed.null
                      /\ 2 * (Scale \div 10) * computed.tenths - (a + b)
                            \in (0 - (Scale \div 10) + 1)..(Scale \div 10)

---------------------------------------------------------------------------
(* Claims about parseCloudCover (SpecCloud) *)

\* the level read from a text is absent: null, or outside 0..100
LevelAbsent(text) ==
    \/ parseNumericValue(text).null
    \/ parseNumericValue(text).tenths \notin 0..(100 * 10)

\* the levels that are present, in tenths
LevelsPresent ==
    {parseNumericValue(x).tenths :
        x \in {y \in {given.low, given.mid, given.high} : ~LevelAbsent(y)}}

\* C14, as claimed: a level outside 0..100 counts as absent; the field is
\* null exactly when all three levels are absent; otherwise total is the
\* largest of the levels that remain, hence within 0..100.
C14_CloudCoverAsClaimed ==
    computed # NotCalled =>
        /\ computed.null <=> LevelsPresent = {}
        /\ ~computed.null =>
              /\ computed.total.tenths = SetMax(LevelsPresent)
              /\ computed.total.tenths \in 0..(100 * 10)

---------------------------------------------------------------------------
(* Claims about the direction decoding (SpecDirection) *)

\* the 16 compass codes
CompassCodes == {directions[i] : i \in 1..Len(directions)}

\* the text is a compass code of one to three letters, in either case
IsCompassText(t) == Len(t) \in 1..3 /\ \A i \in 1..Len(t) : t[i] \in CompassLetters

\* the places of the text where a number begins
NumberStarts(t) ==
    {i \in 1..Len(t) : t[i] \in Digits /\ (i = 1 \/ t[i - 1] \notin Digits)}

\* the places where a number followed by the degree mark begins
MarkedNumberStarts(t) ==
    {i \in NumberStarts(t) :
        LET after == i + Len(DigitRun(t, i))
        IN  after <= Len(t) /\ t[after] = "deg"}

\* the first number of the text
FirstNumber(t) == DigitsValue(DigitRun(t, SetMin(NumberStarts(t))))

\* the compass code of the 22.5 degree bucket nearest to d degrees
BucketCode(d) ==
    LET k == CHOOSE j \in 0..16 : 90 * j - 4 * d \in (0 - 44)..45
    IN  directions[(k % 16) + 1]

\* the direction comes from the text of the cell
DirectionFromText(t) ==
    \/ IsCompassText(t)
    \/ NumberStarts(t) # {} /\ FirstNumber(t) <= 360

\* the rotation minus 180 degrees wrapped into 0..360, rounded to an integer
WrappedRotation(rotate) == JsRound((rotate - 180 * Scale) % (360 * Scale))

\* C15: a direction taken from the cell text is a compass code, namely the
\* text in upper case, or for a number d the code of index
\* round(d / 22.5) mod 16; a direction taken from the markup is a degree
\* string, never a compass code, and a title of 140 degrees stays 140 degrees.
C15_PathsNotUnified ==
    computed # NotCalled =>
        LET t == given.text
        IN  /\ IsCompassText(t) =>
                  computed = Compass([i \in 1..Len(t) |-> ToUpper(t[i])])
            /\ (~IsCompassText(t) /\ DirectionFromText(t)) =>
                  computed = Compass(BucketCode(FirstNumber(t)))
            /\ ~DirectionFromText(t) =>
                  /\ ~computed.null => computed.kind = "degrees"
                  /\ given.html.title >= 0 => computed = Degrees(given.html.title)
                  /\ computed.null <=>
                        (given.html.title < 0 /\ given.html.rotate < 0)

\* a cell without text whose title holds 140 degrees decoded to "140 degrees"
C15_Witness ==
    /\ computed # NotCalled
    /\ given.text = <<>>
    /\ given.html.title = 140
    /\ computed = Degrees(140)

\* C16, as claimed: windDirection is null, one of the 16 compass codes, or a
\* degree string of an integer in 0..360; a direction taken from the rotation
\* is the rotation minus 180 wrapped modulo 360 into the non-negative range.
C16_DirectionRangeAsClaimed ==
    computed # NotCalled =>
        /\ \/ computed.null
           \/ computed.kind = "compass" /\ computed.code \in CompassCodes
           \/ computed.kind = "degrees" /\ computed.n \in 0..360
        /\ ( /\ ~DirectionFromText(given.text)
             /\ given.html.title < 0
             /\ given.html.rotate >= 0 )
              => computed = Degrees(WrappedRotation(given.html.rotate))

\* C20, as claimed: the first applicable rule wins, in the order (a) compass
\* text, (b) a number followed by the degree mark in the text, (c) the degrees
\* of the title attribute, (d) the rotation; a text whose digits are not
\* followed by the degree mark is left to the markup rules.
C20_RulePriorityAsClaimed ==
    computed # NotCalled =>
        LET t == given.text
            a == IsCompassText(t)
            b == ~a /\ MarkedNumberStarts(t) # {}
            d == DigitsValue(DigitRun(t, SetMin(MarkedNumberStarts(t))))
        IN  /\ a => computed = Compass([i \in 1..Len(t) |-> ToUpper(t[i])])
            /\ (b /\ d <= 360) => computed = Compass(BucketCode(d))
            /\ (~a /\ ~b /\ given.html.title >= 0) =>
                  computed = Degrees(given.html.title)
            /\ (~a /\ ~b /\ given.html.title < 0 /\ given.html.rotate >= 0) =>
                  (~computed.null /\ computed.kind = "degrees")
            /\ (~a /\ ~b /\ given.html.title < 0 /\ given.html.rotate < 0) =>
                  computed.null

---------------------------------------------------------------------------
(* Claims about the timestamps of a result (SpecAssemble) *)

\* C17, as claimed: all points of one result carry the same timestamp,
\* whatever the clock does while the points are assembled.
C17_SameCapturedAtAsClaimed ==
    (computed # NotCalled /\ computed.ok) =>
        \A i, j \in 1..Len(computed.value.forecasts) :
            computed.value.forecasts[i].timestamp
                = computed.value.forecasts[j].timestamp

---------------------------------------------------------------------------
(* Claims about the operations that scrape (SpecOps) *)

\* the reason class of a failed scrape
ReasonClass(res) ==
    CASE res = ScrapeError(ErrInvalidUrl) -> "malformed"
      [] res = ScrapeError(ErrNavigation) -> "fetch"
      [] res \in {ScrapeError(ErrNoTable), ScrapeError(ErrNoData)} -> "nodata"
      [] OTHER -> "other"

ClassedFailures ==
    {ScrapeError(ErrInvalidUrl), ScrapeError(ErrNavigation),
     ScrapeError(ErrNoTable), ScrapeError(ErrNoData)}

ScrapingEndpoints == {"live", "refresh", "test", "dashboard"}

\* the operation has answered a scrape that failed for a classed reason
AnsweredFailure ==
    /\ computed # NoOp
    /\ ~computed.rejected
    /\ computed.op \in ScrapingEndpoints
    /\ ~computed.scraped.ok
    /\ ReasonClass(computed.scraped) # "other"

\* C18, as claimed: in each operation that scrapes, the answer to a failed
\* scrape differs from the answer the same operation gives to a failure of
\* any other reason class (malformed URL, fetch timeout, no data).
C18_ReasonClassesDistinctAsClaimed ==
    AnsweredFailure =>
        \A other \in ClassedFailures :
            ReasonClass(other) # ReasonClass(computed.scraped) =>
                OpResponse(computed.op, computed.url, other, TRUE)
                    # computed.response

\* C19: testUrl never throws; it returns true exactly when the scrapeSpot call
\* it made succeeded, that is when the URL was accepted and the cache or one
\* of the two strategies gave a result, and false for a malformed URL and
\* when both strategies failed, whatever the failure.
C19_TestUrlIsBoolean ==
    (computed # NoOp /\ computed.op = "testUrl") =>
        /\ "returned" \in DOMAIN computed.response
        /\ computed.response.returned \in BOOLEAN
        /\ computed.response.returned = computed.scraped.ok
        /\ computed.response.returned <=>
              /\ extractSpotId(computed.url).ok
              /\ computed.hit \/ computed.axOut.ok \/ computed.pupOut.ok

\* testUrl returned false for a page on which neither strategy found a table
C19_Witness ==
    /\ computed # NoOp
    /\ computed.op = "testUrl"
    /\ computed.axOut = Thrown(ErrNoTable)
    /\ computed.pupOut = Thrown(ErrNoTable)
    /\ computed.response = [returned |-> FALSE]

---------------------------------------------------------------------------
(* The table selection on its own: documents of up to MaxTables tables, each *)
(* matching one specific selector or none                                    *)

\* table t of a document: every row has a label and one data cell, whose text
\* is the number of the table
LocateTable(t, sels, nRows) ==
    [sels |-> sels,
     rows |-> [r \in 1..nRows |-> <<Cell(<<"l">>), Cell(<<DigitChar(t)>>)>>]]

\* the documents: every table matches the first specific selector, the last
\* one or none, and has a number of rows around the threshold of the row count
LocateInputs ==
    UNION {{[t \in 1..n |-> LocateTable(t, ss[t], rc[t])] :
               ss \in [1..n -> {{}, {1}, {NumTableSelectors}}],
               rc \in [1..n -> {0, 3, MinRowsExclusive, MinRowsExclusive + 1,
                                MinRowsExclusive + 2}]} :
           n \in 0..MaxTables}

InitLocate ==
    /\ InitScraper
    /\ given \in LocateInputs
    /\ computed = NotCalled

\* parseWindguruData is called on the document: the table it chose, and what
\* it returned or threw
Locate ==
    /\ computed = NotCalled
    /\ computed' = [ok |-> TRUE,
                    table |-> FindForecastTable(given),
                    out |-> parseWindguruData(given, UrlA, SameInstant(0))]
    /\ UNCHANGED <<given, scraperVars, dashVars>>

SpecLocate == InitLocate /\ [][Locate]_vars

---------------------------------------------------------------------------
(* Claims about the table selection (SpecLocate) *)

\* the tables of the document with more than 5 rows
ClearingTables(doc) == {t \in 1..Len(doc) : Len(doc[t].rows) > 5}

\* no table of the document matches a specific selector
SelectorsExhausted(doc) == \A t \in 1..Len(doc) : doc[t].sels = {}

\* the earliest of the tables with the most rows
EarliestLargest(doc) ==
    SetMin({t \in 1..Len(doc) :
               \A o \in 1..Len(doc) : Len(doc[o].rows) <= Len(doc[t].rows)})

\* C21, as claimed: the not-found failure is raised whenever no table of the
\* document has more than 5 rows; a table is taken as the forecast table only
\* if it has more than 5 rows; and when no specific selector matches, the
\* table with the most rows is taken, the earliest one on ties.
C21_TableThresholdAsClaimed ==
    computed # NotCalled =>
        /\ ClearingTables(given) = {} => computed.out = Thrown(ErrNoTable)
        /\ computed.table # 0 => computed.table \in ClearingTables(given)
        /\ (SelectorsExhausted(given) /\ ClearingTables(given) # {}) =>
              /\ computed.table = EarliestLargest(given)
              /\ computed.out.ok
              /\ computed.out.value.forecasts[1].datetime.text
                    = <<DigitChar(computed.table)>>

---------------------------------------------------------------------------
(* Claims about the cache (Spec) *)

\* caller p begins scrapeSpot in this step, for a URL of spot k
BeginsLookup(p, k) ==
    /\ pc[p] = "idle"
    /\ pc'[p] # "idle"
    /\ extractSpotId(url'[p]).ok
    /\ extractSpotId(url'[p]).id = k

\* the entry of k has expired
Expired(k) == cache[k].present /\ clock - cache[k].timestamp >= cacheTimeout

\* C22, as claimed: a lookup of key k that finds an entry of age 5 min or more
\* removes it from the store, and leaves the entries of all other keys as
\* they are.
C22_LazyDiscardAsClaimed ==
    [][\A p \in Procs, k \in SpotIds :
          (BeginsLookup(p, k) /\ Expired(k)) =>
              /\ ~cache'[k].present
              /\ \A j \in SpotIds \ {k} : cache'[j] = cache[j]
      ]_vars

\* C25, as claimed: a cache write never replaces the entry of a spot by a
\* result scraped earlier: over successive writes of one key the scrapedAt of
\* the cached result does not decrease.
C25_NoOlderOverwriteAsClaimed ==
    [][\A k \in SpotIds :
          (cache[k].present /\ cache'[k].present) =>
              cache'[k].data.scrapedAt >= cache[k].data.scrapedAt
      ]_vars

---------------------------------------------------------------------------
(* The cache under overlapping scrapes and invalidations: given holds the   *)
(* last clearCache call, computed the callers whose scrape was in flight    *)
(* when the entry of their spot was cleared                                 *)

\* the URLs scraped: one per spot
CacheUrls == {UrlA, UrlB}

InitCache ==
    /\ InitScraper
    /\ given = NoOp
    /\ computed = {}

\* clearForecastCache: scraper.clearCache(spotId) or scraper.clearCache()
ClearCache(spotId) ==
    /\ cache' = clearCache(cache, spotId)
    /\ given' = [op |-> "clearCache", spotId |-> spotId]
    /\ computed' = computed \cup
                      {p \in Procs : /\ Fetching(p)
                                     /\ spotId \in {NoSpotId, SpotOf(p).id}}
    /\ storedAt' = [p \in Procs |->
                      IF spotId \in {NoSpotId, SpotOf(p).id}
                      THEN 0 - 1 ELSE storedAt[p]]
    /\ UNCHANGED <<clock, pc, url, axOut, pupOut, browser, result, axiosCalls,
                   puppeteerCalls, writes, hit, dashVars>>

\* the caller has its answer and may call again
CacheReturn(p) ==
    /\ pc[p] \in {"done", "failed"}
    /\ Forget(p)
    /\ computed' = computed \ {p}
    /\ UNCHANGED <<clock, cache, browser, given, dashVars>>

\* the steps of scrapeSpot after its first await: the lightweight fetch gives
\* the forecast page or times out, the rendering fetch gives the forecast page
\* or a page without a table
CacheScrapeStep ==
    \/ \E p \in Procs : AxiosSettle(p, FALSE, PageForecast)
    \/ \E p \in Procs : AxiosSettle(p, TRUE, PageNoTable)
    \/ \E p \in Procs : LaunchSettle(p, TRUE)
    \/ \E p \in Procs : PageSettle(p, TRUE)
    \/ \E p \in Procs : GotoSettle(p, TRUE)
    \/ \E p \in Procs : ConsentDone(p)
    \/ \E p \in Procs : WaitTableDone(p)
    \/ \E p \in Procs, page \in {PageForecast, PageNoTable} :
          ContentSettle(p, TRUE, page)
    \/ \E p \in Procs : CloseSettle(p)

NextCache ==
    \/ \E p \in Procs, u \in CacheUrls : ScrapeSpot(p, u)
    \/ CacheScrapeStep
    \/ \E p \in Procs : CacheReturn(p)
    \/ \E spotId \in SpotIds \cup {NoSpotId} : ClearCache(spotId)
    \/ Tick

SpecCache == InitCache /\ [][NextCache]_vars

---------------------------------------------------------------------------
(* Claims about the cache under overlapping calls (SpecCache) *)

\* caller p writes the cache in this step
Wrote(p) == writes'[p] = writes[p] + 1

\* a clearCache call is made in this step: given' is the call
ClearStep == given' # given \/ (cache' # cache /\ writes' = writes)

\* the entry and the lookup result of key j are the same after the step
Untouched(j) ==
    /\ cache'[j] = cache[j]
    /\ getCachedData(cache', j, clock') = getCachedData(cache, j, clock)

\* right after the step, a lookup of key k misses and a scrape of a URL of
\* spot k issues a fetch
MissesNext(k) ==
    /\ ~getCachedData(cache', k, clock').ok
    /\ \A u \in CacheUrls :
          extractSpotId(u).id = k => ScrapePrefix(u, cache', clock').pc = "axios"

\* C23: a cache write for spot k and clearCache(k) leave the entry and the
\* lookup result of every other key as they were, under every interleaving
\* of scrapes and invalidations; right after clearCache(k) a lookup of k
\* misses, and right after clearCache() a lookup of every key misses.
C23_NoCrossSpotInterference ==
    [][/\ \A p \in Procs :
             Wrote(p) =>
                /\ cache'[SpotOf(p).id] = Entry(result'[p].value, clock)
                /\ \A j \in SpotIds \ {SpotOf(p).id} : Untouched(j)
       /\ (ClearStep /\ given'.spotId # NoSpotId) =>
             /\ MissesNext(given'.spotId)
             /\ \A j \in SpotIds \ {given'.spotId} : Untouched(j)
       /\ (ClearStep /\ given'.spotId = NoSpotId) =>
             \A j \in SpotIds : MissesNext(j)
      ]_vars

\* the entry that a finished call wrote for its spot has been cleared, and
\* the valid entry that the other call wrote for the other spot is still there
C23_Witness ==
    /\ given # NoOp
    /\ given.spotId # NoSpotId
    /\ ~cache[given.spotId].present
    /\ \E p, q \in Procs :
          /\ pc[p] = "done" /\ writes[p] = 1 /\ storedAt[p] < 0
          /\ SpotOf(p).id = given.spotId
          /\ pc[q] = "done" /\ writes[q] = 1
          /\ SpotOf(q).id # given.spotId
          /\ ValidEntry(SpotOf(q).id)
          /\ cache[SpotOf(q).id].data = result[q].value

\* C26, as claimed: a lookup of spot k is never answered with the result of a
\* scrape that was in flight when the entry of k was last cleared: such a
\* scrape does not put its result into the cache.
C26_NoStaleRepopulationAsClaimed ==
    [][/\ \A p \in Procs : Wrote(p) => p \notin computed
       /\ \A q \in Procs, k \in SpotIds :
             (BeginsLookup(q, k) /\ hit'[q]) =>
                ~\E p \in computed :
                    /\ pc[p] = "done"
                    /\ SpotOf(p).id = k
                    /\ storedAt[p] = cache[k].timestamp
                    /\ result'[q] = result[p]
      ]_vars

---------------------------------------------------------------------------
(* The wait for the forecast table in scrapeWithPuppeteer on its own: times *)
(* are milliseconds since the wait began                                    *)

\* the selectors waited for, in order
NumWaitSelectors == Len(<<"table.tabulka", "table[class*=forecast]",
                          ".forecast-table", "table[id*=forecast]",
                          "table[class*=wind]">>)

\* the timeout passed to page.waitForSelector
waitTimeout == 5000

\* the element never appears
Never == 0 - 1

\* the loop over tableSelectors from selector i on, entered at time now:
\* waitForSelector resolves when the element is there, or rejects after its
\* timeout, and then the next selector is waited for
RECURSIVE WaitFrom(_, _, _)
WaitFrom(i, now, appear) ==
    IF i > NumWaitSelectors THEN [ok |-> TRUE, tableFound |-> FALSE, waited |-> now]
    ELSE IF appear[i] # Never /\ appear[i] < now + waitTimeout
    THEN [ok |-> TRUE, tableFound |-> TRUE,
          waited |-> IF appear[i] > now THEN appear[i] ELSE now]
    ELSE WaitFrom(i + 1, now + waitTimeout, appear)

\* given[i] is when the first element matching selector i appears in the page
InitWait ==
    /\ InitScraper
    /\ given \in [1..NumWaitSelectors -> {Never, 0, 3000, 7000, 12000}]
    /\ computed = NotCalled

\* the loop runs
WaitForTable ==
    /\ computed = NotCalled
    /\ computed' = WaitFrom(1, 0, given)
    /\ UNCHANGED <<given, scraperVars, dashVars>>

SpecWait == InitWait /\ [][WaitForTable]_vars

---------------------------------------------------------------------------
(* Claims about the wait for the table (SpecWait) *)

\* C24, as claimed: the wait for the table is one stage of at most 5 seconds
\* in all: when none of the selectors ever appears the fetch has stopped
\* waiting after at most 5 seconds, with no table found.
C24_TableWaitBoundAsClaimed ==
    computed # NotCalled =>
        /\ computed.waited <= 5000
        /\ (\A i \in 1..NumWaitSelectors : given[i] = Never) =>
              (~computed.tableFound /\ computed.waited <= 5000)

---------------------------------------------------------------------------
(* Claims about the operations and the cache (SpecOps) *)

\* an operation that scrapes has answered
Answered == computed # NoOp /\ ~computed.rejected

\* C27, as claimed: every result in the cache under spot id k was fetched
\* from a URL of the form https?://(www.)?windguru.cz/k/?, and an operation
\* given a URL of that form is never answered with a result fetched from a
\* URL that is not of that form.
C27_OnlyProviderUrlsCachedAsClaimed ==
    /\ \A k \in SpotIds :
          cache[k].present =>
             /\ windguruRegexTest(cache[k].data.url)
             /\ SelectSeq(cache[k].data.url, IsDigit) = k
    /\ (Answered /\ computed.scraped.ok /\ windguruRegexTest(computed.url)) =>
          windguruRegexTest(computed.scraped.value.url)

BothFailed ==
    /\ Answered
    /\ computed.axOut # NotCalled /\ ~computed.axOut.ok
    /\ computed.pupOut # NotCalled /\ ~computed.pupOut.ok

\* C29: when both strategies fail, the error of scrapeSpot is made of the
\* rendering strategy's error only, and so is the answer of the operation; a
\* lightweight timeout followed by a rendering "no table found" is reported
\* as "no table found", by getLiveForecast with status 500 and not 503.
C29_RenderingErrorSurfaces ==
    BothFailed =>
        /\ computed.scraped = ScrapeError(computed.pupOut.message)
        /\ computed.response
              = OpResponse(computed.op, computed.url,
                           ScrapeError(computed.pupOut.message), TRUE)
        /\ (computed.axOut = Thrown(ErrTimeout)
              /\ computed.pupOut = Thrown(ErrNoTable)) =>
              /\ computed.scraped = ScrapeError(ErrNoTable)
              /\ ~Includes(computed.scraped.message, "timeout")
              /\ computed.op = "live" => computed.response.status = 500
              /\ computed.op = "test" =>
                    computed.response.message = ScrapeError(ErrNoTable).message

\* getLiveForecast answered 500 after a lightweight timeout and a rendering
\* fetch that found no table
C29_Witness ==
    /\ BothFailed
    /\ computed.op = "live"
    /\ computed.axOut = Thrown(ErrTimeout)
    /\ computed.pupOut = Thrown(ErrNoTable)
    /\ computed.response.status = 500

---------------------------------------------------------------------------
(* One forecast point whose numeric cells all hold the same text *)

\* a table of rows 0 to 8 with a label and one data cell of the given text,
\* trimmed as the cell loop does
PointTable(t) ==
    [sels |-> {1},
     rows |-> [r \in 1..(rowMapping.precipitation + 1) |->
                  <<Cell(<<"l">>), Cell(Trim(t))>>]]

InitPoint ==
    /\ InitScraper
    /\ given \in NumericTexts
    /\ computed = NotCalled

\* the text is decoded by itself, and as the cells of a parsed table
DecodePoint ==
    /\ computed = NotCalled
    /\ computed' = [ok |-> TRUE,
                    decoded |-> parseNumericValue(Text(given)),
                    out |-> parseWindguruData(<<PointTable(given)>>, UrlA,
                                              SameInstant(0))]
    /\ UNCHANGED <<given, scraperVars, dashVars>>

SpecPoint == InitPoint /\ [][DecodePoint]_vars

---------------------------------------------------------------------------
(* Claims about the sign of decoded numbers (SpecPoint) *)

NonNegative(v) == v.null \/ v.tenths >= 0

\* C30: parseNumericValue returns null or a number >= 0 for every text, the
\* text "-5" giving 5; hence windSpeed, windGusts, temperature, the cloud
\* levels with their total, and precipitation of a forecast point are each
\* null or >= 0.
C30_DecodedNeverNegative ==
    computed # NotCalled =>
        /\ NonNegative(computed.decoded)
        /\ given = <<"-", "5">> => computed.decoded = Num(5 * 10)
        /\ computed.out.ok =>
              LET pt == computed.out.value.forecasts[1]
              IN  /\ pt.windSpeed = computed.decoded
                  /\ NonNegative(pt.windSpeed)
                  /\ NonNegative(pt.windGusts)
                  /\ NonNegative(pt.temperature)
                  /\ NonNegative(pt.precipitation)
                  /\ \/ pt.cloudCover.null
                     \/ /\ NonNegative(pt.cloudCover.low)
                        /\ NonNegative(pt.cloudCover.mid)
                        /\ NonNegative(pt.cloudCover.high)
                        /\ NonNegative(pt.cloudCover.total)

\* a point whose cells read "-5" has temperature 5 and total cloud cover 5
C30_Witness ==
    /\ computed # NotCalled
    /\ given = <<"-", "5">>
    /\ computed.out.ok
    /\ computed.out.value.forecasts[1].temperature = Num(5 * 10)
    /\ computed.out.value.forecasts[1].cloudCover.total = Num(5 * 10)

====
